---- MODULE Spec2Model ----
(***************************************************************************)
(* EnterL2Client (python/enterl2/client.py): the session lifecycle         *)
(* (connect / disconnect / close), the session guard of the facade         *)
(* operations, the delegation of each facade operation to its service,     *)
(* and the event dispatcher (on / off / emit).                             *)
(*                                                                         *)
(* Python's None is the string "None"; Decimal amounts are opaque strings. *)
(* An operation's outcome is a record [kind, type, value]: kind "return"   *)
(* with the returned value, or kind "raise" with the exception's type and  *)
(* message.  Every await of the code is a suspend point: the operation is  *)
(* split there into the step that starts the awaited call and the step     *)
(* that resumes with its result.                                           *)
(***************************************************************************)
EXTENDS Integers, Sequences, FiniteSets, TLC

\* ------------------------------------------------------------------ bounds
NumTasks == 2
MaxCallbacks == 3

\* ------------------------------------------------------------------ values
None == "None"

Tasks == 1..NumTasks
\* The single logical flow of a caller that issues one operation at a time.
Sequential == {1}

ValidKeys == {"k1", "k2"}
MalformedKeys == {"bad"}
Keys == ValidKeys \cup MalformedKeys

Events == {"tx", "block"}
Callbacks == {"A", "B", "X"}
RaisingCallbacks == {"X"}
\* Callbacks that call back into the client for the event being emitted:
\* "U" unregisters itself with off(event, U), "R" registers itself once more
\* with on(event, R).
ReentrantCallbacks == {"U", "R"}
Data == {"d1", "d2"}

Tokens == {"0xTOK"}
OptTokens == {None, "0xTOK"}
Amounts == {"10"}
Recipients == {None, "", "0xB0B"}
Payees == {"0xBEEF"}
Descriptions == {None, "memo"}
Names == {"alice"}
Resolvers == {None, "0xRES"}
LockPeriods == {0, 30}
DailyLimits == {None, "100"}
TxHashes == {"0xH1"}

Returned(v) == [kind |-> "return", type |-> "value", value |-> v]
Raised(ty, msg) == [kind |-> "raise", type |-> ty, value |-> msg]
Pending == [kind |-> "pending", type |-> "", value |-> ""]
NoOutcome == [kind |-> "none", type |-> "", value |-> ""]

Call(target, method, args) == [target |-> target, method |-> method, args |-> args]

\* What an awaited call on the provider, the wallet manager or a service can
\* produce: a value, or one of the provider's typed errors.
ProviderValues == {"r1", "r2"}
ProviderErrors == {"NetworkError", "TransactionError"}
CallOutcomes ==
    {Returned(v) : v \in ProviderValues}
        \cup {Raised(e, "provider failure") : e \in ProviderErrors}

\* ------------------------------------------------------------------- state
VARIABLES
    account,            \* self._account: None or the LocalAccount
    provider_account,   \* the account bound to self.provider by set_account
    provider_closed,    \* whether provider.close() has completed
    event_callbacks,    \* self._event_callbacks: event -> list of callbacks
    task,               \* per caller flow: the operation it runs or ran last,
                        \* the calls it made, what the last call produced,
                        \* its outcome, and what its emit invoked and printed
    emitting            \* the running emit's event, data and list position

vars == <<account, provider_account, provider_closed, event_callbacks, task,
          emitting>>

\* An empty dict of event lists.
EmptyRegistry == [e \in {} |-> <<>>]

\* No emit is running.  A running emit has its event and data, the position
\* of its list iterator, the list as it was when the emit started, and the
\* parity of the number of callbacks it has called.
NoEmit == [event |-> "", data |-> "", idx |-> 0, registered |-> <<>>, turn |-> 0]

IdleTask ==
    [pc |-> "idle", op |-> "none", args |-> [none |-> None], calls |-> <<>>,
     result |-> NoOutcome, outcome |-> NoOutcome, invoked |-> <<>>,
     printed |-> <<>>, seq |-> 0]

\* EnterL2Client.__init__
Init ==
    /\ account = None
    /\ provider_account = None
    /\ provider_closed = FALSE
    /\ event_callbacks = EmptyRegistry
    /\ task = [t \in Tasks |-> IdleTask]
    /\ emitting = NoEmit

\* ----------------------------------------------------------------- helpers
\* A flow can invoke an operation when it is not suspended in one and no
\* synchronous emit is on the stack.
Ready(t) ==
    /\ task[t].pc = "idle"
    /\ \A u \in Tasks : task[u].pc # "emit"

\* The parity of the number of operations a flow has invoked: it changes
\* exactly in the step that invokes one.
NextSeq(t) == 1 - task[t].seq

\* The operation ran to its end without suspending; result is what its last
\* call produced.
Finish(t, op, args, calls, result, outcome) ==
    task' = [task EXCEPT ![t] =
                [pc |-> "idle", op |-> op, args |-> args, calls |-> calls,
                 result |-> result, outcome |-> outcome, invoked |-> <<>>,
                 printed |-> <<>>, seq |-> NextSeq(t)]]

\* The operation started the awaited call and is suspended on it.
Suspend(t, op, args, call) ==
    task' = [task EXCEPT ![t] =
                [pc |-> "await", op |-> op, args |-> args, calls |-> <<call>>,
                 result |-> Pending, outcome |-> Pending, invoked |-> <<>>,
                 printed |-> <<>>, seq |-> NextSeq(t)]]

\* Account.from_key: a LocalAccount for a well-formed key, an exception otherwise.
FromKey(private_key) ==
    IF private_key \in ValidKeys
    THEN [ok |-> TRUE,
          account |-> CASE private_key = "k1" -> "acct1"
                        [] private_key = "k2" -> "acct2"]
    ELSE [ok |-> FALSE, account |-> None]

\* LocalAccount.address
AddressOf(acct) ==
    CASE acct = "acct1" -> "0xA1"
      [] acct = "acct2" -> "0xA2"

\* Python truthiness of an Optional[str] argument: None and "" are falsy.
Truthy(v) == v # None /\ v # ""

\* The guard with the presence test lost.
is_connected_always == TRUE

is_connected == account # None

address == IF account # None THEN AddressOf(account) ELSE None

NotConnected == Raised("EnterL2Error", "Client not connected")

\* --------------------------------------------------------------- provider
\* EnterL2Provider.set_account(account): clearing the account always
\* succeeds; binding an identity is a connect-time step that the provider may
\* refuse, and a refused binding leaves the bound account as it was.
SetAccount(acct, accepts) ==
    IF acct = None \/ accepts
    THEN [outcome |-> Returned(None), bound |-> acct]
    ELSE [outcome |-> Raised("ValueError", "account rejected"),
          bound |-> provider_account]

\* ---------------------------------------------------------------- session
\* An except clause that swallows the exception: connect returns normally.
ConnectErrorSwallowed(message) == Returned(None)

\* connect's except clause: raise EnterL2Error(f"Failed to connect: {str(e)}")
ConnectError(message) == Raised("EnterL2Error", message)

\* EnterL2Client.connect(private_key); accepts: whether the provider accepts
\* the binding.
Connect(t, private_key, accepts) ==
    /\ Ready(t)
    /\ LET parsed == FromKey(private_key)
           args == [private_key |-> private_key]
       IN  IF ~parsed.ok
           THEN \* Account.from_key raises before self._account is assigned
                /\ UNCHANGED <<account, provider_account>>
                /\ Finish(t, "connect", args, <<>>, NoOutcome,
                          ConnectError("Failed to connect: invalid key"))
           ELSE LET bind == SetAccount(parsed.account, accepts)
                IN  /\ account' = parsed.account
                    /\ provider_account' = bind.bound
                    /\ Finish(t, "connect", args,
                              <<Call("provider", "set_account", <<parsed.account>>)>>,
                              bind.outcome,
                              IF bind.outcome.kind = "return"
                              THEN Returned(None)
                              ELSE ConnectError("Failed to connect: account rejected"))
    /\ UNCHANGED <<provider_closed, event_callbacks, emitting>>

\* A disconnect that clears the provider's account and keeps its own.
DisconnectedAccountKept == account

\* The value disconnect stores in self._account.
DisconnectedAccount == None

\* EnterL2Client.disconnect()
Disconnect(t) ==
    /\ Ready(t)
    /\ account' = DisconnectedAccount
    /\ provider_account' = SetAccount(None, TRUE).bound
    /\ Finish(t, "disconnect", [none |-> None],
              <<Call("provider", "set_account", <<None>>)>>,
              SetAccount(None, TRUE).outcome, Returned(None))
    /\ UNCHANGED <<provider_closed, event_callbacks, emitting>>

\* ------------------------------------------------------- facade operations
\* Everything an operation that touches neither the session nor the registry
\* leaves alone.
Frame ==
    UNCHANGED <<account, provider_account, provider_closed, event_callbacks,
                emitting>>

\* A guarded operation that suspends between its session check and the start
\* of its call: the check is one step, the call starts in a later one.
GuardedSplit(t, op, args, call) ==
    /\ \/ /\ Ready(t)
          /\ IF ~is_connected
             THEN Finish(t, op, args, <<>>, NoOutcome, NotConnected)
             ELSE task' = [task EXCEPT ![t] =
                             [pc |-> "checked", op |-> op, args |-> args,
                              calls |-> <<>>, result |-> Pending,
                              outcome |-> Pending, invoked |-> <<>>,
                              printed |-> <<>>, seq |-> NextSeq(t)]]
       \/ /\ task[t].pc = "checked"
          /\ task[t].op = op
          /\ task[t].args = args
          /\ task' = [task EXCEPT ![t].pc = "await", ![t].calls = <<call>>]
    /\ Frame

\* The shape shared by the guarded operations: the session check, then the
\* one awaited call.
Guarded(t, op, args, call) ==
    /\ Ready(t)
    /\ IF ~is_connected
       THEN Finish(t, op, args, <<>>, NoOutcome, NotConnected)
       ELSE Suspend(t, op, args, call)
    /\ Frame

\* A query that was given the session check of the guarded operations.
UnguardedWithCheck(t, op, args, call) == Guarded(t, op, args, call)

\* The shape of the operations that delegate without a session check.
Unguarded(t, op, args, call) ==
    /\ Ready(t)
    /\ Suspend(t, op, args, call)
    /\ Frame

\* get_network_info()
GetNetworkInfo(t) ==
    Unguarded(t, "get_network_info", [none |-> None],
              Call("provider", "get_network_info", <<>>))

\* get_balance(token_address=None)
GetBalance(t, token_address) ==
    Guarded(t, "get_balance", [token_address |-> token_address],
            Call("provider", "get_balance", <<address, token_address>>))

\* get_transaction(tx_hash)
GetTransaction(t, tx_hash) ==
    Unguarded(t, "get_transaction", [tx_hash |-> tx_hash],
              Call("provider", "get_transaction", <<tx_hash>>))

\* wait_for_transaction(tx_hash, confirmations=1, timeout=60)
WaitForTransaction(t, tx_hash, confirmations, timeout) ==
    Unguarded(t, "wait_for_transaction",
              [tx_hash |-> tx_hash, confirmations |-> confirmations,
               timeout |-> timeout],
              Call("provider", "wait_for_transaction",
                   <<tx_hash, confirmations, timeout>>))

\* create_consumer_wallet()
CreateConsumerWallet(t) ==
    Guarded(t, "create_consumer_wallet", [none |-> None],
            Call("wallet", "create_wallet", <<"CONSUMER">>))

\* The options dict of create_merchant_wallet.
MerchantOptions(whitelist_enabled, daily_limit) ==
    [whitelist_enabled |-> whitelist_enabled, daily_limit |-> daily_limit]

\* create_merchant_wallet(whitelist_enabled=False, daily_limit=None)
CreateMerchantWallet(t, whitelist_enabled, daily_limit) ==
    Guarded(t, "create_merchant_wallet",
            [whitelist_enabled |-> whitelist_enabled, daily_limit |-> daily_limit],
            Call("wallet", "create_wallet",
                 <<"MERCHANT", MerchantOptions(whitelist_enabled, daily_limit)>>))

\* A request built without the description.
PaymentRequestNoDescription(to, amount, token_address, description) ==
    [to |-> to, amount |-> amount, token_address |-> token_address,
     description |-> None]

\* The request dict of send_payment.
PaymentRequest(to, amount, token_address, description) ==
    [to |-> to, amount |-> amount, token_address |-> token_address,
     description |-> description]

\* send_payment(to, amount, token_address=None, description=None)
SendPayment(t, to, amount, token_address, description) ==
    Guarded(t, "send_payment",
            [to |-> to, amount |-> amount, token_address |-> token_address,
             description |-> description],
            Call("payment", "send_payment",
                 <<PaymentRequest(to, amount, token_address, description)>>))

\* recipient = l2_recipient or self.address
DefaultRecipient(recipient) == IF Truthy(recipient) THEN recipient ELSE address

\* deposit(token_address, amount, l2_recipient=None)
Deposit(t, token_address, amount, l2_recipient) ==
    Guarded(t, "deposit",
            [token_address |-> token_address, amount |-> amount,
             recipient |-> l2_recipient],
            Call("bridge", "deposit",
                 <<token_address, amount, DefaultRecipient(l2_recipient)>>))

\* withdraw(token_address, amount, l1_recipient=None)
Withdraw(t, token_address, amount, l1_recipient) ==
    Guarded(t, "withdraw",
            [token_address |-> token_address, amount |-> amount,
             recipient |-> l1_recipient],
            Call("bridge", "withdraw",
                 <<token_address, amount, DefaultRecipient(l1_recipient)>>))

\* register_name(name, resolver=None)
RegisterName(t, name, resolver) ==
    Guarded(t, "register_name", [name |-> name, resolver |-> resolver],
            Call("naming", "register_name", <<name, resolver>>))

\* stake(amount, lock_period=0)
Stake(t, amount, lock_period) ==
    Guarded(t, "stake", [amount |-> amount, lock_period |-> lock_period],
            Call("staking", "stake", <<amount, lock_period>>))

\* unstake(amount)
Unstake(t, amount) ==
    Guarded(t, "unstake", [amount |-> amount],
            Call("staking", "unstake", <<amount>>))

\* claim_rewards()
ClaimRewards(t) ==
    Guarded(t, "claim_rewards", [none |-> None],
            Call("staking", "claim_rewards", <<>>))

\* A facade that wraps the error of its awaited call in its own error type.
PassThroughWrapped(result) ==
    IF result.kind = "raise"
    THEN Raised("EnterL2Error", result.value)
    ELSE result

\* What a facade operation hands back from its awaited call: `return await ...`.
PassThrough(result) == result

\* The awaited call of a facade operation completes and the operation
\* resumes: its value is returned, its error propagates.
Complete(t, result) ==
    /\ task[t].pc = "await"
    /\ task[t].op \notin {"close", "__aexit__"}
    /\ \A u \in Tasks : task[u].pc # "emit"
    /\ task' = [task EXCEPT ![t].pc = "idle", ![t].result = result,
                            ![t].outcome = PassThrough(result)]
    /\ Frame

\* ------------------------------------------------------- event dispatcher
\* The number of entries in all the lists of the registry.
RECURSIVE Entries(_, _)
Entries(reg, events) ==
    IF events = {} THEN 0
    ELSE LET e == CHOOSE x \in events : TRUE
         IN  Len(reg[e]) + Entries(reg, events \ {e})

\* The list registered for an event, as on() sees it: created empty if absent.
ListOf(event) ==
    IF event \in DOMAIN event_callbacks THEN event_callbacks[event] ELSE <<>>

\* self._event_callbacks[event] = list
WithList(event, list) ==
    [e \in DOMAIN event_callbacks \cup {event} |->
        IF e = event THEN list ELSE event_callbacks[e]]

\* list.append(callback)
ListAppend(list, callback) == Append(list, callback)

\* on(event, callback)
On(t, event, callback) ==
    /\ Ready(t)
    /\ Entries(event_callbacks, DOMAIN event_callbacks) < MaxCallbacks
    /\ event_callbacks' = WithList(event, ListAppend(ListOf(event), callback))
    /\ Finish(t, "on", [event |-> event, callback |-> callback], <<>>,
              NoOutcome, Returned(None))
    /\ UNCHANGED <<account, provider_account, provider_closed, emitting>>

\* A removal that drops every equal element, not the first alone.
ListRemoveAll(list, callback) ==
    SelectSeq(list, LAMBDA c : c # callback)

\* A removal by position that, finding no equal element, removes the last one
\* (the position -1 of a failed search).
ListRemoveOrLast(list, callback) ==
    IF \E i \in 1..Len(list) : list[i] = callback
    THEN LET i == CHOOSE k \in 1..Len(list) :
                     /\ list[k] = callback
                     /\ \A j \in 1..(k - 1) : list[j] # callback
         IN  SubSeq(list, 1, i - 1) \o SubSeq(list, i + 1, Len(list))
    ELSE SubSeq(list, 1, Len(list) - 1)

\* list.remove(callback): the first equal element is removed; the list is
\* returned as it is when there is none (off swallows the ValueError).
ListRemove(list, callback) ==
    IF \E i \in 1..Len(list) : list[i] = callback
    THEN LET i == CHOOSE k \in 1..Len(list) :
                     /\ list[k] = callback
                     /\ \A j \in 1..(k - 1) : list[j] # callback
         IN  SubSeq(list, 1, i - 1) \o SubSeq(list, i + 1, Len(list))
    ELSE list

\* off(event, callback)
Off(t, event, callback) ==
    /\ Ready(t)
    /\ event_callbacks' =
          IF event \in DOMAIN event_callbacks
          THEN WithList(event, ListRemove(event_callbacks[event], callback))
          ELSE event_callbacks
    /\ Finish(t, "off", [event |-> event, callback |-> callback], <<>>,
              NoOutcome, Returned(None))
    /\ UNCHANGED <<account, provider_account, provider_closed, emitting>>

\* What calling a registered callback does: it returns, or it raises.
CallbackOutcome(callback) ==
    IF callback \in RaisingCallbacks
    THEN Raised("ValueError", callback)
    ELSE Returned(None)

\* An emit without the try around the callback.
CatchesNothing(outcome) == FALSE

\* emit's `except Exception`: the exception of a callback is caught there.
Catches(outcome) == outcome.kind = "raise"

\* emit(event, data), up to the first callback: an event without a list
\* returns at once, otherwise the loop over the list starts.
EmitStart(t, event, data) ==
    /\ Ready(t)
    /\ IF event \in DOMAIN event_callbacks
       THEN /\ emitting' = [event |-> event, data |-> data, idx |-> 1,
                            registered |-> event_callbacks[event],
                            turn |-> 0]
            /\ task' = [task EXCEPT ![t] =
                           [pc |-> "emit", op |-> "emit",
                            args |-> [event |-> event, data |-> data],
                            calls |-> <<>>, result |-> NoOutcome,
                            outcome |-> Pending, invoked |-> <<>>,
                            printed |-> <<>>, seq |-> NextSeq(t)]]
       ELSE /\ emitting' = NoEmit
            /\ Finish(t, "emit", [event |-> event, data |-> data], <<>>,
                      NoOutcome, Returned(None))
    /\ UNCHANGED <<account, provider_account, provider_closed, event_callbacks>>

\* The record of the callbacks an emit has called: the first MaxCallbacks + 1
\* calls, which is every call of an emit that returns.
Logged(log, entry) ==
    IF Len(log) <= MaxCallbacks THEN Append(log, entry) ELSE log

\* What the called callback does to the registry: "U" runs off(event, U), "R"
\* runs on(event, R), the others do not touch it.  The registry holds at most
\* MaxCallbacks entries: when "R" appends to a full one, the head of the
\* event's list, which the iterator has passed and this emit never reads
\* again, is forgotten and the iterator's position moves down with the list.
CallbackEffect(callback, event) ==
    LET list == event_callbacks[event]
    IN  CASE callback = "U" ->
               [registry |-> WithList(event, ListRemove(list, callback)),
                forgotten |-> 0]
          [] callback = "R" ->
               IF Entries(event_callbacks, DOMAIN event_callbacks) < MaxCallbacks
               THEN [registry |-> WithList(event, ListAppend(list, callback)),
                     forgotten |-> 0]
               ELSE [registry |->
                         WithList(event, ListAppend(Tail(list), callback)),
                     forgotten |-> 1]
          [] OTHER -> [registry |-> event_callbacks, forgotten |-> 0]

\* One iteration of emit's loop: the list iterator yields the element at its
\* position in the list as it is now, and the callback is called with data
\* and does what it does to the registry.  A caught exception is printed and
\* the loop goes on, the iterator one position further in the live list.
EmitCallback(t) ==
    /\ task[t].pc = "emit"
    /\ emitting.idx <= Len(event_callbacks[emitting.event])
    /\ LET callback == event_callbacks[emitting.event][emitting.idx]
           outcome == CallbackOutcome(callback)
           called == Logged(task[t].invoked, <<callback, emitting.data>>)
           effect == CallbackEffect(callback, emitting.event)
       IN  /\ event_callbacks' = effect.registry
           /\ IF outcome.kind = "raise" /\ ~Catches(outcome)
              THEN \* the exception leaves emit
                   /\ emitting' = NoEmit
                   /\ task' = [task EXCEPT ![t].pc = "idle",
                                           ![t].invoked = called,
                                           ![t].outcome = outcome]
              ELSE /\ emitting' = [emitting EXCEPT
                                      !.idx = @ + 1 - effect.forgotten,
                                      !.turn = 1 - @]
                   /\ task' = [task EXCEPT
                                  ![t].invoked = called,
                                  ![t].printed = IF outcome.kind = "raise"
                                                 THEN Append(@, callback)
                                                 ELSE @]
    /\ UNCHANGED <<account, provider_account, provider_closed>>

\* The list iterator is exhausted: emit returns.
EmitReturn(t) ==
    /\ task[t].pc = "emit"
    /\ emitting.idx > Len(event_callbacks[emitting.event])
    /\ emitting' = NoEmit
    /\ task' = [task EXCEPT ![t].pc = "idle", ![t].outcome = Returned(None)]
    /\ UNCHANGED <<account, provider_account, provider_closed, event_callbacks>>

\* ------------------------------------------------------------------ close
\* What provider.close() can produce.
CloseOutcomes ==
    {Returned(None)} \cup {Raised(e, "provider failure") : e \in ProviderErrors}

\* close(), up to its await of provider.close().
CloseStart(t) ==
    /\ Ready(t)
    /\ Suspend(t, "close", [none |-> None], Call("provider", "close", <<>>))
    /\ Frame

\* close() resumes: self._event_callbacks.clear() runs when provider.close()
\* returned, and is never reached when it raised.
CloseComplete(t, result) ==
    /\ task[t].pc = "await"
    /\ task[t].op = "close"
    /\ \A u \in Tasks : task[u].pc # "emit"
    /\ task' = [task EXCEPT ![t].pc = "idle", ![t].result = result,
                            ![t].outcome = result]
    /\ IF result.kind = "return"
       THEN /\ provider_closed' = TRUE
            /\ event_callbacks' = EmptyRegistry
       ELSE UNCHANGED <<provider_closed, event_callbacks>>
    /\ UNCHANGED <<account, provider_account, emitting>>

\* ------------------------------------------------------------ scoped use
\* What the body of an `async with` block hands to __aexit__ as exc_type:
\* None when it finished normally, the exception's type when it raised.
ExcTypes == {None, "RuntimeError"}

\* __aenter__(): returns self.
AEnter(t) ==
    /\ Ready(t)
    /\ Finish(t, "__aenter__", [none |-> None], <<>>, NoOutcome, Returned("self"))
    /\ Frame

\* An exit that closes only when the body finished normally.
ExitCallsUnlessRaised(exc_type) ==
    IF exc_type = None
    THEN <<Call("client", "close", <<>>), Call("provider", "close", <<>>)>>
    ELSE <<>>

\* The calls __aexit__ starts, whatever exc_type is: self.close(), which
\* starts provider.close().
ExitCalls(exc_type) ==
    <<Call("client", "close", <<>>), Call("provider", "close", <<>>)>>

\* __aexit__(exc_type, exc_val, exc_tb), up to the await inside close().
AExitStart(t, exc_type) ==
    /\ Ready(t)
    /\ task' = [task EXCEPT ![t] =
                   [pc |-> "await", op |-> "__aexit__",
                    args |-> [exc_type |-> exc_type],
                    calls |-> ExitCalls(exc_type), result |-> Pending,
                    outcome |-> Pending, invoked |-> <<>>, printed |-> <<>>,
                    seq |-> NextSeq(t)]]
    /\ Frame

\* __aexit__ resumes as close() does: the registry is cleared when
\* provider.close() returned; __aexit__ then returns None, and the error of
\* provider.close() leaves it otherwise.
AExitComplete(t, result) ==
    /\ task[t].pc = "await"
    /\ task[t].op = "__aexit__"
    /\ \A u \in Tasks : task[u].pc # "emit"
    /\ task' = [task EXCEPT ![t].pc = "idle", ![t].result = result,
                            ![t].outcome = result]
    /\ IF result.kind = "return"
       THEN /\ provider_closed' = TRUE
            /\ event_callbacks' = EmptyRegistry
       ELSE UNCHANGED <<provider_closed, event_callbacks>>
    /\ UNCHANGED <<account, provider_account, emitting>>

\* --------------------------------------------------------- specifications
\* The session and the facade, driven by one sequential caller.
Next ==
    \E t \in Sequential :
        \/ \E k \in Keys, accepts \in BOOLEAN : Connect(t, k, accepts)
        \/ Disconnect(t)
        \/ GetNetworkInfo(t)
        \/ \E tok \in OptTokens : GetBalance(t, tok)
        \/ \E h \in TxHashes : GetTransaction(t, h)
        \/ \E h \in TxHashes : WaitForTransaction(t, h, 1, 60)
        \/ CreateConsumerWallet(t)
        \/ \E w \in BOOLEAN, d \in DailyLimits : CreateMerchantWallet(t, w, d)
        \/ \E to \in Payees, a \in Amounts, tok \in OptTokens, d \in Descriptions :
              SendPayment(t, to, a, tok, d)
        \/ \E tok \in Tokens, a \in Amounts, r \in Recipients : Deposit(t, tok, a, r)
        \/ \E tok \in Tokens, a \in Amounts, r \in Recipients : Withdraw(t, tok, a, r)
        \/ \E n \in Names, r \in Resolvers : RegisterName(t, n, r)
        \/ \E a \in Amounts, l \in LockPeriods : Stake(t, a, l)
        \/ \E a \in Amounts : Unstake(t, a)
        \/ ClaimRewards(t)
        \/ \E r \in CallOutcomes : Complete(t, r)
        \/ On(t, "tx", "A")
        \/ CloseStart(t)
        \/ \E r \in CloseOutcomes : CloseComplete(t, r)
        \/ AEnter(t)
        \/ \E x \in ExcTypes : AExitStart(t, x)
        \/ \E r \in CloseOutcomes : AExitComplete(t, r)

Spec == Init /\ [][Next]_vars

\* The event dispatcher, driven by one sequential caller.
NextEvents ==
    \E t \in Sequential :
        \/ \E e \in Events, cb \in Callbacks : On(t, e, cb)
        \/ \E e \in Events, cb \in Callbacks : Off(t, e, cb)
        \/ \E e \in Events, d \in Data : EmitStart(t, e, d)
        \/ EmitCallback(t)
        \/ EmitReturn(t)
        \/ CloseStart(t)
        \/ \E r \in CloseOutcomes : CloseComplete(t, r)

SpecEvents == Init /\ [][NextEvents]_vars

\* The event dispatcher with a callback that unregisters itself while emit
\* runs.
NextReentrant ==
    \E t \in Sequential :
        \/ \E e \in Events, cb \in {"A", "B", "U"} : On(t, e, cb)
        \/ \E e \in Events, cb \in {"A", "B", "U"} : Off(t, e, cb)
        \/ \E e \in Events, d \in Data : EmitStart(t, e, d)
        \/ EmitCallback(t)
        \/ EmitReturn(t)

SpecReentrant == Init /\ [][NextReentrant]_vars

\* The event dispatcher with a callback that registers itself once more while
\* emit runs.  No callback here removes an entry during an emit, so an emit
\* that has called "R" always has an "R" ahead of its iterator and the
\* entries CallbackEffect forgets are never read again.  emit is synchronous:
\* once started, its loop runs on without a suspend point, which is the weak
\* fairness of its two steps.
NextRegistering ==
    \E t \in Sequential :
        \/ \E e \in Events, cb \in {"A", "R"} : On(t, e, cb)
        \/ \E e \in Events, cb \in {"A", "R"} : Off(t, e, cb)
        \/ \E e \in Events, d \in Data : EmitStart(t, e, d)
        \/ EmitCallback(t)
        \/ EmitReturn(t)

SpecRegistering ==
    /\ Init
    /\ [][NextRegistering]_vars
    /\ \A t \in Sequential :
          WF_vars(EmitCallback(t)) /\ WF_vars(EmitReturn(t))

\* The caller issues operations concurrently: every flow can invoke an
\* operation whenever it is not suspended in one, and the suspended calls
\* complete in any order.
NextConcurrent ==
    \E t \in Tasks :
        \/ \E accepts \in BOOLEAN : Connect(t, "k1", accepts)
        \/ Disconnect(t)
        \/ SendPayment(t, "0xBEEF", "10", None, None)
        \/ ClaimRewards(t)
        \/ \E r \in CallOutcomes : Complete(t, r)

SpecConcurrent == Init /\ [][NextConcurrent]_vars

\* ============================================================= properties
\* Flow t invokes operation op in this step.
Invokes(t, op) == task'[t].seq # task[t].seq /\ task'[t].op = op

\* The operation flow t is suspended in, or runs synchronously, ends in this step.
Ends(t, op) == task[t].pc # "idle" /\ task'[t].pc = "idle" /\ task[t].op = op

MutatingOps ==
    {"send_payment", "deposit", "withdraw", "register_name", "stake",
     "unstake", "claim_rewards", "create_consumer_wallet",
     "create_merchant_wallet"}

\* C1: a mutating operation invoked while the client is disconnected ends at
\* its session check: it raises the not-connected error (EnterL2Error
\* "Client not connected"), makes no call to the provider, the wallet manager
\* or a service, does not suspend, and changes nothing of the client.
C1_GuardFailsFast ==
    [][\A t \in Tasks : \A op \in MutatingOps :
          (Invokes(t, op) /\ account = None) =>
              /\ task'[t].pc = "idle"
              /\ task'[t].outcome =
                    [kind |-> "raise", type |-> "EnterL2Error",
                     value |-> "Client not connected"]
              /\ task'[t].calls = <<>>
              /\ UNCHANGED <<account, provider_account, provider_closed,
                             event_callbacks, emitting>>]_vars

C1_Witness ==
    \E t \in Tasks :
        /\ task[t].op \in MutatingOps
        /\ task[t].pc = "idle"
        /\ task[t].outcome.kind = "raise"
        /\ task[t].calls = <<>>
        /\ account = None

\* C2: on appends one entry to the event's list (a second registration of the
\* same callback is a second entry), off removes the first matching entry and
\* no other, and an emit that ends has invoked exactly the entries of the
\* event's list, one call per entry, in list order, each with the emitted data.
C2_EmitInvokesRegistered ==
    [][\A t \in Tasks :
          LET a == task'[t].args
              old == IF a.event \in DOMAIN event_callbacks
                     THEN event_callbacks[a.event] ELSE <<>>
          IN
          /\ Invokes(t, "on") =>
                /\ DOMAIN event_callbacks' = DOMAIN event_callbacks \cup {a.event}
                /\ \A e \in DOMAIN event_callbacks \ {a.event} :
                      event_callbacks'[e] = event_callbacks[e]
                /\ Len(event_callbacks'[a.event]) = Len(old) + 1
                /\ event_callbacks'[a.event][Len(old) + 1] = a.callback
                /\ \A i \in 1..Len(old) : event_callbacks'[a.event][i] = old[i]
          /\ (Invokes(t, "off") /\ \E i \in 1..Len(old) : old[i] = a.callback) =>
                /\ DOMAIN event_callbacks' = DOMAIN event_callbacks
                /\ \A e \in DOMAIN event_callbacks \ {a.event} :
                      event_callbacks'[e] = event_callbacks[e]
                /\ \E i \in 1..Len(old) :
                      /\ old[i] = a.callback
                      /\ \A j \in 1..(i - 1) : old[j] # a.callback
                      /\ Len(event_callbacks'[a.event]) = Len(old) - 1
                      /\ \A j \in 1..(i - 1) : event_callbacks'[a.event][j] = old[j]
                      /\ \A j \in i..(Len(old) - 1) :
                            event_callbacks'[a.event][j] = old[j + 1]
          /\ (task'[t].op = "emit" /\ task'[t].pc = "idle"
                  /\ (Invokes(t, "emit") \/ Ends(t, "emit"))) =>
                LET list == IF a.event \in DOMAIN event_callbacks'
                            THEN event_callbacks'[a.event] ELSE <<>>
                IN  /\ Len(task'[t].invoked) = Len(list)
                    /\ \A i \in 1..Len(list) :
                          task'[t].invoked[i] = <<list[i], a.data>>]_vars

\* An ended emit that called a callback registered twice, twice, and another
\* callback after it.
C2_Witness ==
    \E t \in Tasks :
        /\ task[t].op = "emit"
        /\ task[t].pc = "idle"
        /\ Len(task[t].invoked) = 3
        /\ task[t].invoked[1] = task[t].invoked[2]
        /\ task[t].invoked[3] # task[t].invoked[1]

\* C3: when a callback raises, emit goes on to the next entry of the list,
\* and emit ends by returning, after the last entry: it raises nothing.
C3_RaisingCallbackIsolated ==
    [][\A t \in Tasks :
          task[t].pc = "emit" =>
              LET list == event_callbacks[emitting.event]
              IN  /\ (emitting.idx <= Len(list)
                        /\ list[emitting.idx] \in RaisingCallbacks) =>
                          /\ task'[t].pc = "emit"
                          /\ emitting'.event = emitting.event
                          /\ emitting'.idx = emitting.idx + 1
                          /\ event_callbacks' = event_callbacks
                  /\ task'[t].pc = "idle" =>
                          /\ task'[t].outcome = [kind |-> "return", type |-> "value",
                                                 value |-> None]
                          /\ Len(task'[t].invoked) = Len(list)]_vars

\* An ended emit whose first callback raised and whose second was still called.
C3_Witness ==
    \E t \in Tasks :
        /\ task[t].op = "emit"
        /\ task[t].pc = "idle"
        /\ task[t].outcome.kind = "return"
        /\ Len(task[t].invoked) >= 2
        /\ task[t].invoked[1][1] \in RaisingCallbacks
        /\ task[t].invoked[2][1] \notin RaisingCallbacks
        /\ task[t].printed = <<task[t].invoked[1][1]>>

\* C4: on a disconnected client, connect with malformed key material raises
\* the connect error (EnterL2Error, not the not-connected one) and leaves the
\* client disconnected; a connect with valid key material whose binding the
\* provider accepts then returns normally and leaves the client connected
\* with that key's identity.
C4_MalformedConnectThenValid ==
    [][\A t \in Tasks :
          LET a == task'[t].args
          IN
          /\ (Invokes(t, "connect") /\ a.private_key \in MalformedKeys
                  /\ account = None) =>
                /\ task'[t].outcome.kind = "raise"
                /\ task'[t].outcome.type = "EnterL2Error"
                /\ task'[t].outcome.value # "Client not connected"
                /\ account' = None
                /\ ~is_connected'
          /\ (Invokes(t, "connect") /\ a.private_key \in ValidKeys
                  /\ task'[t].result.kind = "return") =>
                /\ task'[t].outcome = [kind |-> "return", type |-> "value",
                                       value |-> None]
                /\ is_connected'
                /\ address' = (CASE a.private_key = "k1" -> "0xA1"
                                 [] a.private_key = "k2" -> "0xA2")]_vars

\* A malformed connect has failed on a disconnected client.
C4_Witness ==
    \E t \in Tasks :
        /\ task[t].op = "connect"
        /\ task[t].args.private_key \in MalformedKeys
        /\ task[t].outcome.kind = "raise"
        /\ ~is_connected

\* C5: a connect that fails leaves the client's session and the provider's
\* bound account as they were before the call, and a connect that succeeds
\* leaves both holding the new identity.
C5_ConnectAllOrNothing ==
    [][\A t \in Tasks :
          Invokes(t, "connect") =>
              IF task'[t].outcome.kind = "raise"
              THEN UNCHANGED <<account, provider_account>>
              ELSE /\ account' = FromKey(task'[t].args.private_key).account
                   /\ provider_account' = account']_vars

\* C6: disconnect returns normally and leaves the client disconnected, with
\* address None, from any state; a disconnect that follows a disconnect
\* changes nothing of the client or the provider.
C6_DisconnectIdempotent ==
    [][\A t \in Tasks :
          Invokes(t, "disconnect") =>
              /\ task'[t].outcome = [kind |-> "return", type |-> "value",
                                     value |-> None]
              /\ ~is_connected'
              /\ address' = None
              /\ account' = None
              /\ provider_account' = None
              /\ task[t].op = "disconnect" =>
                    UNCHANGED <<account, provider_account, provider_closed,
                                event_callbacks, emitting>>]_vars

\* A disconnect has returned and left the client disconnected.
C6_Witness ==
    \E t \in Tasks :
        /\ task[t].op = "disconnect"
        /\ task[t].pc = "idle"
        /\ task[t].outcome.kind = "return"
        /\ ~is_connected
        /\ address = None

\* C7: when close ends, by returning or by raising, the event registry is
\* empty.
C7_CloseAlwaysClears ==
    [][\A t \in Tasks :
          Ends(t, "close") => event_callbacks' = EmptyRegistry]_vars

\* C8: when close returns on a connected client (its identity bound to the
\* client and to the provider), the client is disconnected and its address is
\* None.
C8_CloseDestroysSession ==
    [][\A t \in Tasks :
          (Ends(t, "close") /\ account # None /\ provider_account = account
              /\ task'[t].outcome.kind = "return") =>
                /\ ~is_connected'
                /\ address' = None]_vars

\* C9: on a connected client send_payment makes one call, payment.send_payment
\* with the request {to, amount, token_address, description} of its
\* arguments, suspends on it, and ends with what that call produced, having
\* made no other call.
C9_SendPaymentDelegatesOnce ==
    [][\A t \in Tasks :
          LET a == task'[t].args
          IN
          /\ (Invokes(t, "send_payment") /\ account # None) =>
                /\ task'[t].pc = "await"
                /\ task'[t].calls =
                      <<[target |-> "payment", method |-> "send_payment",
                         args |-> <<[to |-> a.to, amount |-> a.amount,
                                     token_address |-> a.token_address,
                                     description |-> a.description]>>]>>
          /\ Ends(t, "send_payment") =>
                /\ task'[t].calls = task[t].calls
                /\ Len(task'[t].calls) = 1
                /\ task'[t].args = task[t].args
                /\ task'[t].result.kind \in {"return", "raise"}
                /\ task'[t].outcome = task'[t].result]_vars

\* A send_payment with a description and a token has returned its call's value.
C9_Witness ==
    \E t \in Tasks :
        /\ task[t].op = "send_payment"
        /\ task[t].pc = "idle"
        /\ task[t].args.description # None
        /\ task[t].args.token_address = None
        /\ Len(task[t].calls) = 1
        /\ task[t].outcome.kind = "return"
        /\ task[t].outcome.value \in ProviderValues

\* C10: on a connected client (its identity bound to the client and to the
\* provider) deposit and withdraw make their bridge call with the given
\* recipient, and with the session's address when the recipient is None.
C10_RecipientDefaultsToAddress ==
    [][\A t \in Tasks : \A op \in {"deposit", "withdraw"} :
          (Invokes(t, op) /\ account # None /\ provider_account = account) =>
              LET a == task'[t].args
              IN  /\ Len(task'[t].calls) = 1
                  /\ task'[t].calls[1].target = "bridge"
                  /\ task'[t].calls[1].method = op
                  /\ task'[t].calls[1].args =
                        <<a.token_address, a.amount,
                          IF a.recipient = None
                          THEN AddressOf(account) ELSE a.recipient>>]_vars

\* The part of C10 the code does satisfy: the session address (as it is when
\* the operation is invoked) for a None recipient, the given recipient when
\* it is a non-empty string.
C10_NonEmptyRecipientKept ==
    [][\A t \in Tasks : \A op \in {"deposit", "withdraw"} :
          (Invokes(t, op) /\ account # None /\ task'[t].args.recipient # "") =>
              LET a == task'[t].args
              IN  task'[t].calls =
                      <<[target |-> "bridge", method |-> op,
                         args |-> <<a.token_address, a.amount,
                                    IF a.recipient = None
                                    THEN AddressOf(account) ELSE a.recipient>>]>>]_vars

FacadeOps ==
    MutatingOps \cup {"get_balance", "get_network_info", "get_transaction",
                      "wait_for_transaction"}

\* C11: on a connected client a facade operation starts one call and suspends
\* on it; when the operation ends it has made that one call and no other,
\* an error of the call is the operation's error, unchanged, and the session,
\* the provider's account and the event registry are as they were.
C11_OneCallErrorsPassThrough ==
    [][\A t \in Tasks : \A op \in FacadeOps :
          /\ (Invokes(t, op) /\ account # None) =>
                /\ task'[t].pc = "await"
                /\ Len(task'[t].calls) = 1
                /\ UNCHANGED <<account, provider_account, event_callbacks>>
          /\ Ends(t, op) =>
                /\ task'[t].calls = task[t].calls
                /\ Len(task'[t].calls) = 1
                /\ task'[t].result.kind = "raise" =>
                      /\ task'[t].outcome = task'[t].result
                      /\ task'[t].outcome.type \in ProviderErrors
                /\ UNCHANGED <<account, provider_account, event_callbacks>>]_vars

\* A mutating operation on a connected client has ended with the provider's
\* error.
C11_Witness ==
    \E t \in Tasks :
        /\ task[t].op \in MutatingOps
        /\ task[t].pc = "idle"
        /\ account # None
        /\ Len(task[t].calls) = 1
        /\ task[t].outcome.kind = "raise"
        /\ task[t].outcome.type = "TransactionError"
        /\ event_callbacks # EmptyRegistry

\* The close calls among the calls of a flow's operation.
CloseCalls(t) ==
    SelectSeq(task[t].calls,
              LAMBDA c : c.target = "client" /\ c.method = "close")

\* C12: __aenter__ returns the client itself, makes no call and changes no
\* state; __aexit__ calls close once, whether exc_type is None or an
\* exception's type, and has called it once when it ends.
C12_ScopeExitCloses ==
    [][\A t \in Tasks :
          /\ Invokes(t, "__aenter__") =>
                /\ task'[t].pc = "idle"
                /\ task'[t].outcome = [kind |-> "return", type |-> "value",
                                       value |-> "self"]
                /\ task'[t].calls = <<>>
                /\ UNCHANGED <<account, provider_account, provider_closed,
                               event_callbacks, emitting>>
          /\ Invokes(t, "__aexit__") => Len(CloseCalls(t)') = 1
          /\ Ends(t, "__aexit__") =>
                /\ Len(CloseCalls(t)') = 1
                /\ task'[t].outcome = task'[t].result]_vars

\* An __aexit__ after a body that raised has ended, with the provider closed.
C12_Witness ==
    \E t \in Tasks :
        /\ task[t].op = "__aexit__"
        /\ task[t].pc = "idle"
        /\ task[t].args.exc_type # None
        /\ Len(CloseCalls(t)) = 1
        /\ task[t].outcome.kind = "return"
        /\ provider_closed

\* C13: off for an event that has no list, or for a callback that is not in
\* the event's list, returns normally and leaves the registry as it was: no
\* list is created, none is changed.
C13_OffUnknownIsNoOp ==
    [][\A t \in Tasks :
          LET a == task'[t].args
          IN  (Invokes(t, "off")
                 /\ (a.event \notin DOMAIN event_callbacks
                       \/ \A i \in 1..Len(event_callbacks[a.event]) :
                             event_callbacks[a.event][i] # a.callback)) =>
                /\ task'[t].outcome = [kind |-> "return", type |-> "value",
                                       value |-> None]
                /\ event_callbacks' = event_callbacks]_vars

\* An off has returned for a callback that is not in the event's non-empty
\* list, with another event still without a list.
C13_Witness ==
    \E t \in Tasks :
        /\ task[t].op = "off"
        /\ task[t].pc = "idle"
        /\ task[t].outcome.kind = "return"
        /\ task[t].args.event \in DOMAIN event_callbacks
        /\ Len(event_callbacks[task[t].args.event]) = 2
        /\ \A i \in 1..2 :
              event_callbacks[task[t].args.event][i] # task[t].args.callback
        /\ DOMAIN event_callbacks # Events

\* C14: get_balance without a session raises the not-connected error and
\* makes no call; with a session it starts the one call provider.get_balance
\* with the session's address and the given token.  get_network_info,
\* get_transaction and wait_for_transaction start their provider call with
\* their arguments whether there is a session or not.
C14_QueriesAndSession ==
    [][\A t \in Tasks :
          LET a == task'[t].args
              started(method, args) ==
                  /\ task'[t].pc = "await"
                  /\ task'[t].calls =
                        <<[target |-> "provider", method |-> method,
                           args |-> args]>>
          IN
          /\ (Invokes(t, "get_balance") /\ account = None) =>
                /\ task'[t].pc = "idle"
                /\ task'[t].outcome =
                      [kind |-> "raise", type |-> "EnterL2Error",
                       value |-> "Client not connected"]
                /\ task'[t].calls = <<>>
          /\ (Invokes(t, "get_balance") /\ account # None) =>
                started("get_balance", <<AddressOf(account), a.token_address>>)
          /\ Invokes(t, "get_network_info") =>
                started("get_network_info", <<>>)
          /\ Invokes(t, "get_transaction") =>
                started("get_transaction", <<a.tx_hash>>)
          /\ Invokes(t, "wait_for_transaction") =>
                started("wait_for_transaction",
                        <<a.tx_hash, a.confirmations, a.timeout>>)]_vars

\* A query without a session check is suspended on its provider call while
\* the client is disconnected.
C14_Witness ==
    \E t \in Tasks :
        /\ task[t].op \in {"get_network_info", "get_transaction",
                           "wait_for_transaction"}
        /\ task[t].pc = "await"
        /\ Len(task[t].calls) = 1
        /\ account = None

\* C17: after any sequence of connect and disconnect calls, successful or
\* failed, the account bound to the provider is the client's session
\* identity: both are None, or both are the same identity.
C17_ProviderAccountIsSession == provider_account = account

\* C18: with operations issued concurrently, under every interleaving at the
\* await points, the step in which the delegated call of a mutating operation
\* starts finds the client connected and leaves it connected: no disconnect
\* takes effect between the session check and the start of the call.
C18_NoCallStartsDisconnected ==
    [][\A t \in Tasks :
          (/\ task'[t].pc = "await"
           /\ task[t].pc # "await"
           /\ task'[t].op \in MutatingOps) =>
              /\ account # None
              /\ account' # None
              /\ Invokes(t, task'[t].op)]_vars

\* One flow is suspended on the call of a mutating operation it started while
\* connected, and another flow's disconnect has since taken effect.
C18_Witness ==
    \E t, u \in Tasks :
        /\ t # u
        /\ task[t].pc = "await"
        /\ task[t].op \in MutatingOps
        /\ Len(task[t].calls) = 1
        /\ task[u].op = "disconnect"
        /\ task[u].pc = "idle"
        /\ account = None

\* C15: when a callback calls on or off for the event while emit runs, emit
\* still invokes every callback that was registered for the event when it
\* started, each once and in registration order: the k-th callback emit calls
\* is the k-th entry of the list as it was at the start, and emit does not
\* return before it has called them all.
C15_EmitInvokesStartList ==
    [][\A t \in Tasks :
          LET start == emitting.registered
              k == Len(task[t].invoked)
          IN  /\ (task[t].pc = "emit" /\ k < Len(start)
                    /\ Len(task'[t].invoked) = k + 1) =>
                    task'[t].invoked[k + 1] = <<start[k + 1], emitting.data>>
              /\ (Ends(t, "emit") /\ task[t].pc = "emit") =>
                    k >= Len(start)]_vars

\* C16: an emit that has started returns, whatever the registry holds,
\* callbacks that register further callbacks for the emitted event included.
C16_EmitTerminates ==
    \A t \in Tasks : (task[t].pc = "emit") ~> (task[t].pc = "idle")

====
